---- MODULE Spec2Model ----
(***************************************************************************)
(* The rocket launch simulator: RocketSystem (state, stage strategies,     *)
(* observer fan-out) as a state machine.                                   *)
(*                                                                         *)
(* Fuel is a percentage that the code changes in steps of 1.0 and 0.5; it  *)
(* is held here in half-percent units, Pct(x) being x percent, so that     *)
(* every value the code computes is an integer (the floating-point         *)
(* arithmetic on multiples of 0.5 below 2^53 is exact).                    *)
(***************************************************************************)
EXTENDS Integers, Sequences, FiniteSets, TLC

\* ------------------------------------------------------------------ bounds

\* The most observers registered with one RocketSystem.
MaxObservers == 2

\* The most observers that subscribe to one SportsEventSubject, and the most
\* events it publishes.
MaxSubscribers == 2

MaxEvents == 2

\* The most decorators around one email, and the most getMetadata calls made
\* on it.
MaxDecorators == 2

MaxMetadataCalls == 2

\* The most calls of SmartDeviceFactory.createDevice.
MaxDevices == 3

\* The longest message of an email that is encrypted.
MaxMessageLen == 4

\* The most entries of the change history of the GlobalSettings.
MaxChanges == 1

\* The largest stage number StageFactory.createStage is called with.
MaxStageNumber == 3

\* The largest of the small arguments advanceTime is called with.
MaxSeconds == 3

\* ------------------------------------------------------------------- units

Pct(x) == 2 * x

\* ----------------------------------------------------------- MissionStatus

PRE_LAUNCH == "PRE_LAUNCH"
CHECKS_IN_PROGRESS == "CHECKS_IN_PROGRESS"
READY_TO_LAUNCH == "READY_TO_LAUNCH"
IN_FLIGHT == "IN_FLIGHT"
ORBIT_ACHIEVED == "ORBIT_ACHIEVED"
MISSION_FAILED == "MISSION_FAILED"

MissionStatus ==
    {PRE_LAUNCH, CHECKS_IN_PROGRESS, READY_TO_LAUNCH, IN_FLIGHT,
     ORBIT_ACHIEVED, MISSION_FAILED}

\* -------------------------------------------------------- stage strategies

NoStrategy == "null"
Stage1Strategy == "Stage1Strategy"
Stage2Strategy == "Stage2Strategy"

\* Mutant: Stage 2 burning nothing.
getFuelConsumptionRateStage2Free(strategy) ==
    IF strategy = Stage1Strategy THEN Pct(1) ELSE 0

getFuelConsumptionRate(strategy) ==
    IF strategy = Stage1Strategy THEN Pct(1) ELSE Pct(1) \div 2

\* Mutant: Stage 1 given the altitude increment of Stage 2.
getAltitudeIncrementOfStage2(strategy) == 15

getAltitudeIncrement(strategy) ==
    IF strategy = Stage1Strategy THEN 10 ELSE 15

\* Mutant: Stage 2 given the speed increment of Stage 1.
getSpeedIncrementOfStage1(strategy) == 1000

getSpeedIncrement(strategy) ==
    IF strategy = Stage1Strategy THEN 1000 ELSE 800

\* Mutant: Stage 2 separating as Stage 1 does.
shouldSeparateEveryStage(strategy, fuel) == fuel <= Pct(30)

shouldSeparate(strategy, fuel) ==
    IF strategy = Stage1Strategy THEN fuel <= Pct(30) ELSE FALSE

\* Mutant: the last case made the default.
createStageDefaultStage2(stageNumber) ==
    IF stageNumber = 1 THEN Stage1Strategy ELSE Stage2Strategy

\* StageFactory.createStage: the strategy, or NoStrategy where the code throws
\* SimulatorException("Unknown stage").
createStage(stageNumber) ==
    CASE stageNumber = 1 -> Stage1Strategy
      [] stageNumber = 2 -> Stage2Strategy
      [] OTHER -> NoStrategy

\* ------------------------------------------------------------- RocketState

NewRocketState ==
    [stage |-> 0, fuel |-> Pct(100), altitude |-> 0, speed |-> 0,
     status |-> PRE_LAUNCH]

ORBIT_ALTITUDE == 160

MIN_FUEL_FOR_ORBIT == Pct(5)

\* ------------------------------------------------------------------- state

VARIABLES
    state,                  \* RocketSystem.state
    currentStageStrategy,   \* RocketSystem.currentStageStrategy
    observers,              \* RocketSystem.observers: the kind of each one
    pc,                     \* "idle", or the public call in progress
    op,                     \* the public call in progress, or the last one
    result,                 \* how that call ended: returned or the error raised
    seconds,                \* advanceTime's argument
    i,                      \* advanceTime's loop variable
    steps,                  \* updateFlightParameters calls made by this call
    haltedAt,               \* the first of them that returned false, or 0
    notifyCalls,            \* notifyObservers calls made by this call
    invoked,                \* observers invoked by the latest of them
    delivered,              \* what the latest of them handed to each observer
    transient,              \* the systems whose check drew a transient error
    script,                 \* the calls a scripted run has still to make
    commandHistory,         \* CommandInvoker.commandHistory
    command,                \* the command given to executeCommand, its outcome
    input,                  \* the line given to processInput, its outcome
    snapshot,               \* the object a caller of a getter holds
    factory,                \* a call of StageFactory.createStage, its outcome
    subject,                \* a SportsEventSubject and its last call
    email,                  \* an email, the decorators around it, its last call
    deviceFactory,          \* SmartDeviceFactory's statics and its last call
    settings                \* the GlobalSettings instance and its last call

\* The RocketSystem and the position of the call in progress.
system ==
    <<state, currentStageStrategy, observers, pc, op, result, seconds, i,
      steps, haltedAt, notifyCalls, invoked, delivered, transient>>

\* The rocket simulator: the system, its callers and the script.
simulator ==
    <<system, script, commandHistory, command, input, snapshot, factory>>

\* The objects of the design-pattern demonstrations.
patterns == <<subject, email, deviceFactory, settings>>

\* What the callers of the RocketSystem hold.
client == <<commandHistory, command, input, snapshot, factory, patterns>>

driver ==
    <<script, commandHistory, command, input, snapshot, factory, patterns>>

\* What the caller of the CommandInvoker holds.
caller == <<script, input, snapshot, factory, patterns>>

vars ==
    <<state, currentStageStrategy, observers, pc, op, result, seconds, i,
      steps, haltedAt, notifyCalls, invoked, delivered, transient, script,
      commandHistory, command, input, snapshot, factory, subject, email,
      deviceFactory, settings>>

\* An observer either returns (the ConsoleDisplay) or raises.
ObserverKinds == {"ok", "throws"}

\* The five systems performPreLaunchChecks goes through.
SystemChecks ==
    {"Flight computer", "Navigation system", "Fuel tanks", "Engine systems",
     "Communication array"}

\* ------------------------------------------------------- observer fan-out

\* The index of the first observer that raises, 0 when none does.
FirstThrower(obs) ==
    IF \E k \in 1..Len(obs) : obs[k] = "throws"
    THEN CHOOSE k \in 1..Len(obs) :
            /\ obs[k] = "throws"
            /\ \A j \in 1..(k - 1) : obs[j] # "throws"
    ELSE 0

\* notifyObservers: forEach in registration order; an observer that raises
\* ends the iteration.
notifyObservers(obs) ==
    [invoked |-> IF FirstThrower(obs) = 0 THEN Len(obs) ELSE FirstThrower(obs),
     raised |-> FirstThrower(obs) # 0]

\* An object reference: the RocketState object of the system itself, or a
\* copy of it made when the reference was produced.
Reference(object, s) == [object |-> object, value |-> s]

\* observer.onStateUpdate(this.state): the observers are handed the state
\* object itself.
observerArgument(s) == Reference("this.state", s)

\* What an observer that writes to its argument writes: a full tank.
ObserverWrite(s) == [s EXCEPT !.fuel = Pct(100)]

\* The system's state after the holder of ref has written w to the object:
\* the write reaches the state only through a reference to the state itself.
writeThrough(ref, s, w) == IF ref.object = "this.state" THEN w ELSE s

\* The system's state after an observer of this kind has returned.
onStateUpdate(kind, s) ==
    IF kind = "writes"
    THEN writeThrough(observerArgument(s), s, ObserverWrite(s))
    ELSE s

\* Mutant: getState returning the state object itself.
getStateAliased(s) == Reference("this.state", s)

\* getState: return { ...this.state }, a new object with the same fields.
getState(s) == Reference("copy", s)

\* What the holder of ref reads through it while the system's state is s.
valueOf(ref, s) == IF ref.object = "this.state" THEN s ELSE ref.value

\* Mutant: the observers called last registered first.
fanOutReversed(s, obs, k) ==
    LET n == notifyObservers(obs).invoked
    IN  [state |-> s,
         log |-> [j \in 1..n |-> [observer |-> n + 1 - j, state |-> s]]]

\* notifyObservers from the k-th observer on: the state it leaves, and what
\* each observer invoked was handed, in the order of the calls.
RECURSIVE fanOut(_, _, _)
fanOut(s, obs, k) ==
    IF k > Len(obs)
    THEN [state |-> s, log |-> << >>]
    ELSE LET entry == [observer |-> k, state |-> observerArgument(s).value]
         IN  IF obs[k] = "throws"
             THEN [state |-> s, log |-> <<entry>>]
             ELSE LET rest == fanOut(onStateUpdate(obs[k], s), obs, k + 1)
                  IN  [rest EXCEPT !.log = <<entry>> \o @]

\* ------------------------------------- RocketSystem.updateFlightParameters

\* this.state.fuel -= this.currentStageStrategy.getFuelConsumptionRate()
burnFuel(s, strategy) ==
    [s EXCEPT !.fuel = @ - getFuelConsumptionRate(strategy)]

\* Mutant: fuel of exactly 0 not taken for exhaustion.
fuelExhaustedBelowZero(fuel) == fuel < 0

\* if (this.state.fuel <= 0)
fuelExhausted(fuel) == fuel <= 0

\* Mutant: the clamp left out.
clampFuelMissing(s) == s

\* this.state.fuel = 0
clampFuel(s) == [s EXCEPT !.fuel = 0]

missionFailed(s) == [s EXCEPT !.status = MISSION_FAILED]

\* this.state.altitude += ...; this.state.speed += ...
climb(s, strategy) ==
    [s EXCEPT !.altitude = @ + getAltitudeIncrement(strategy),
              !.speed = @ + getSpeedIncrement(strategy)]

\* Mutant: orbit only above the orbit altitude, not at it.
orbitReachedAbove(s) ==
    s.altitude > 160 /\ s.fuel >= Pct(5)

\* if (altitude >= ORBIT_ALTITUDE && fuel >= MIN_FUEL_FOR_ORBIT)
orbitReached(s) ==
    s.altitude >= ORBIT_ALTITUDE /\ s.fuel >= MIN_FUEL_FOR_ORBIT

achieveOrbit(s) == [s EXCEPT !.status = ORBIT_ACHIEVED]

\* Mutant: the stage counted up, the strategy left as it was.
separateStageKeepsStrategy(s, strategy) ==
    [state |-> [s EXCEPT !.stage = @ + 1], strategy |-> strategy,
     raised |-> FALSE]

\* separateStage: stage++ is done before createStage is called, so the stage
\* number stays incremented, and the strategy as it was, when createStage throws.
separateStage(s, strategy) ==
    LET next == [s EXCEPT !.stage = @ + 1]
    IN  [state |-> next,
         strategy |-> IF createStage(next.stage) = NoStrategy
                      THEN strategy ELSE createStage(next.stage),
         raised |-> createStage(next.stage) = NoStrategy]

\* Mutant: an observer's error swallowed by notifyObservers.
afterNotifySwallowed(obs, ret) == ret

\* What a step that called notifyObservers gives its caller: ret, unless an
\* observer raised.
afterNotify(obs, ret) ==
    IF notifyObservers(obs).raised THEN "ObserverError" ELSE ret

\* The separation check of a step that neither ran out of fuel nor reached
\* orbit, and the notification that ends the step.
separationCheck(s, strategy, obs) ==
    IF shouldSeparate(strategy, s.fuel)
    THEN LET sep == separateStage(s, strategy)
         IN  IF sep.raised
             THEN [state |-> sep.state, strategy |-> sep.strategy,
                   ret |-> "SimulatorException", notified |-> FALSE]
             ELSE [state |-> sep.state, strategy |-> sep.strategy,
                   ret |-> afterNotify(obs, "continue"), notified |-> TRUE]
    ELSE [state |-> s, strategy |-> strategy,
          ret |-> afterNotify(obs, "continue"), notified |-> TRUE]

\* Mutant: the separation check made before the orbit check.
flightUpdateSeparationFirst(s, strategy, obs) ==
    LET moved == climb(s, strategy)
        sep == IF shouldSeparate(strategy, moved.fuel)
               THEN separateStage(moved, strategy)
               ELSE [state |-> moved, strategy |-> strategy, raised |-> FALSE]
    IN  IF sep.raised
        THEN [state |-> sep.state, strategy |-> sep.strategy,
              ret |-> "SimulatorException", notified |-> FALSE]
        ELSE IF orbitReached(sep.state)
        THEN [state |-> achieveOrbit(sep.state), strategy |-> sep.strategy,
              ret |-> afterNotify(obs, "halt"), notified |-> TRUE]
        ELSE [state |-> sep.state, strategy |-> sep.strategy,
              ret |-> afterNotify(obs, "continue"), notified |-> TRUE]

\* The altitude and speed update, then the orbit check, then the separation
\* check.
flightUpdate(s, strategy, obs) ==
    LET moved == climb(s, strategy)
    IN  IF orbitReached(moved)
        THEN [state |-> achieveOrbit(moved), strategy |-> strategy,
              ret |-> afterNotify(obs, "halt"), notified |-> TRUE]
        ELSE separationCheck(moved, strategy, obs)

\* One one-second step. ret is "continue" (the code returns true), "halt" (it
\* returns false) or the error it raises.
updateFlightParameters(s, strategy, obs) ==
    IF strategy = NoStrategy
    THEN [state |-> s, strategy |-> strategy, ret |-> "halt",
          notified |-> FALSE]
    ELSE LET burned == burnFuel(s, strategy)
         IN  IF fuelExhausted(burned.fuel)
             THEN [state |-> missionFailed(clampFuel(burned)),
                   strategy |-> strategy,
                   ret |-> afterNotify(obs, "halt"), notified |-> TRUE]
             ELSE flightUpdate(burned, strategy, obs)

\* ------------------------------------------------- RocketSystem operations

\* Mutant: launch refused only during a flight.
launchAllowedUnlessInFlight(status) == status # IN_FLIGHT

\* if (this.state.status !== MissionStatus.READY_TO_LAUNCH) throw
launchAllowed(status) == status = READY_TO_LAUNCH

\* Mutant: advanceTime allowed from the launch on, the flight over or not.
advanceAllowedOnceLaunched(status) ==
    status \in {IN_FLIGHT, ORBIT_ACHIEVED, MISSION_FAILED}

\* if (this.state.status !== MissionStatus.IN_FLIGHT) throw
advanceAllowed(status) == status = IN_FLIGHT

\* Mutant: the loop without its break.
loopContinuesNoBreak(ret, k, n) == ret \in {"continue", "halt"} /\ k < n

\* for (let i = 0; i < seconds; i++) { if (!update()) break; }: whether the
\* loop runs another step after one that gave ret and left the counter at k.
loopContinues(ret, k, n) == ret = "continue" /\ k < n

\* Mutant: the retry of the fuel tanks' check fails.
retryFailsForFuelTanks(sys) == sys # "Fuel tanks"

\* A transient error is retried, and the retry is successful.
retrySuccessful(sys) == TRUE

InitSystem ==
    /\ state = NewRocketState
    /\ currentStageStrategy = NoStrategy
    /\ observers = << >>
    /\ pc = "idle"
    /\ op = "none"
    /\ result = "none"
    /\ seconds = 0
    /\ i = 0
    /\ steps = 0
    /\ haltedAt = 0
    /\ notifyCalls = 0
    /\ invoked = 0
    /\ delivered = << >>
    /\ transient = {}

addObserver(kind) ==
    /\ pc = "idle"
    /\ Len(observers) < MaxObservers
    /\ observers' = Append(observers, kind)
    /\ UNCHANGED <<state, currentStageStrategy, pc, op, result, seconds, i,
                   steps, haltedAt, notifyCalls, invoked, delivered,
                   transient>>

\* performPreLaunchChecks up to the end of the five system checks: whatever
\* the status, it becomes CHECKS_IN_PROGRESS. Each check draws, with
\* Math.random() < 0.1, a transient error; any set of them may.
performPreLaunchChecksBegin ==
    /\ pc = "idle"
    /\ pc' = "checks"
    /\ \E faults \in SUBSET SystemChecks : transient' = faults
    /\ delivered' = << >>
    /\ op' = "performPreLaunchChecks"
    /\ result' = "none"
    /\ state' = [state EXCEPT !.status = CHECKS_IN_PROGRESS]
    /\ seconds' = 0
    /\ i' = 0
    /\ steps' = 0
    /\ haltedAt' = 0
    /\ notifyCalls' = 0
    /\ invoked' = 0
    /\ UNCHANGED <<currentStageStrategy, observers>>

\* The rest of performPreLaunchChecks: READY_TO_LAUNCH, then the observers;
\* an error of a check would be caught, logged and thrown again.
performPreLaunchChecksEnd ==
    /\ pc = "checks"
    /\ pc' = "idle"
    /\ IF \A sys \in transient : retrySuccessful(sys)
       THEN LET ready == [state EXCEPT !.status = READY_TO_LAUNCH]
            IN  /\ state' = fanOut(ready, observers, 1).state
                /\ delivered' = fanOut(ready, observers, 1).log
                /\ notifyCalls' = notifyCalls + 1
                /\ invoked' = notifyObservers(observers).invoked
                /\ result' = afterNotify(observers, "returned")
       ELSE /\ result' = "Error"
            /\ UNCHANGED <<state, delivered, notifyCalls, invoked>>
    /\ UNCHANGED <<currentStageStrategy, observers, op, seconds, i, steps,
                   haltedAt, transient>>

launch ==
    /\ pc = "idle"
    /\ op' = "launch"
    /\ seconds' = 0
    /\ i' = 0
    /\ steps' = 0
    /\ haltedAt' = 0
    /\ transient' = {}
    /\ IF launchAllowed(state.status)
       THEN LET launched == [state EXCEPT !.stage = 1, !.status = IN_FLIGHT]
            IN  /\ state' = fanOut(launched, observers, 1).state
                /\ delivered' = fanOut(launched, observers, 1).log
                /\ currentStageStrategy' = createStage(1)
                /\ notifyCalls' = 1
                /\ invoked' = notifyObservers(observers).invoked
                /\ result' = afterNotify(observers, "returned")
       ELSE /\ result' = "InvalidStateException"
            /\ notifyCalls' = 0
            /\ invoked' = 0
            /\ delivered' = << >>
            /\ UNCHANGED <<state, currentStageStrategy>>
    /\ UNCHANGED <<pc, observers>>

\* advanceTime(n) up to the first test of the loop condition.
advanceTime(n) ==
    /\ pc = "idle"
    /\ op' = "advanceTime"
    /\ seconds' = n
    /\ i' = 0
    /\ steps' = 0
    /\ haltedAt' = 0
    /\ notifyCalls' = 0
    /\ invoked' = 0
    /\ delivered' = << >>
    /\ transient' = {}
    /\ IF ~advanceAllowed(state.status)
       THEN /\ result' = "InvalidStateException"
            /\ pc' = "idle"
       ELSE IF loopContinues("continue", 0, n)
            THEN /\ result' = "none"
                 /\ pc' = "advance"
            ELSE /\ result' = "returned"
                 /\ pc' = "idle"
    /\ UNCHANGED <<state, currentStageStrategy, observers>>

\* One iteration of advanceTime's loop, up to the next test of the loop
\* condition, or to the return or the raise that ends the call.
advanceStep ==
    /\ pc = "advance"
    /\ LET u == updateFlightParameters(state, currentStageStrategy, observers)
           k == IF u.ret = "continue" THEN i + 1 ELSE i
       IN  /\ state' = IF u.notified
                        THEN fanOut(u.state, observers, 1).state
                        ELSE u.state
           /\ delivered' = IF u.notified
                            THEN fanOut(u.state, observers, 1).log
                            ELSE delivered
           /\ currentStageStrategy' = u.strategy
           /\ steps' = steps + 1
           /\ i' = k
           /\ haltedAt' = IF u.ret = "halt" /\ haltedAt = 0
                          THEN steps + 1 ELSE haltedAt
           /\ notifyCalls' = IF u.notified THEN notifyCalls + 1
                             ELSE notifyCalls
           /\ invoked' = IF u.notified THEN notifyObservers(observers).invoked
                         ELSE invoked
           /\ IF loopContinues(u.ret, k, seconds)
              THEN /\ pc' = "advance"
                   /\ result' = "none"
              ELSE /\ pc' = "idle"
                   /\ result' = IF u.ret \in {"continue", "halt"}
                                THEN "returned" ELSE u.ret
    /\ UNCHANGED <<observers, op, seconds, transient>>

\* --------------------------------------------------------- specifications

\* The arguments advanceTime is called with: none, a few, and the longer
\* burns of the demonstration runs.
SecondsChoices == (-1 .. MaxSeconds) \cup {10, 60}

\* new SportsEventSubject(name): no observers, no events.
NewSportsEventSubject ==
    [observers |-> << >>, eventHistory |-> << >>,
     call |-> [op |-> "none", result |-> "none", updated |-> << >>]]

\* new BasicEmail(subject, message): no decorator around it, none recorded.
NewBasicEmail(message) ==
    [message |-> message, layers |-> << >>, decorators |-> << >>,
     calls |-> 0, encrypted |-> FALSE,
     call |-> [op |-> "none", layer |-> 0, returned |-> << >>]]

\* SmartDeviceFactory before its first call: private static deviceCounter = 0.
NewSmartDeviceFactory ==
    [deviceCounter |-> 0, created |-> 0, calls |-> 0,
     call |-> [type |-> << >>, customId |-> "undefined", result |-> "none"]]

\* A value of a setting: its type, and its number (a boolean as 0 or 1).
Value(type, n) == [type |-> type, n |-> n]

Undefined == Value("undefined", 0)

\* GlobalSettings after its constructor: initializeDefaultSettings, and an
\* empty change history. appName and version are strings 1 and 2.
NewGlobalSettings ==
    [settings |-> [key \in {"appName", "version", "debugMode", "maxRetries",
                             "timeoutMs"} |->
                     CASE key = "appName" -> Value("string", 1)
                       [] key = "version" -> Value("string", 2)
                       [] key = "debugMode" -> Value("boolean", 0)
                       [] key = "maxRetries" -> Value("number", 3)
                       [] key = "timeoutMs" -> Value("number", 5000)],
     changeHistory |-> << >>,
     call |-> [op |-> "none", key |-> "none", value |-> Undefined,
               result |-> "none"]]

\* Nobody has called the command layer, processInput, getState, the factory
\* or the demonstrations yet.
InitClient ==
    /\ commandHistory = << >>
    /\ command = [kind |-> "none", seconds |-> 0, result |-> "none",
                  executed |-> FALSE]
    /\ input = [line |-> << >>, result |-> "none", logged |-> "none"]
    /\ snapshot = [object |-> "none", value |-> NewRocketState]
    /\ factory = [stageNumber |-> 0, fuel |-> 0, result |-> "none"]
    /\ subject = NewSportsEventSubject
    /\ email = NewBasicEmail(<< >>)
    /\ deviceFactory = NewSmartDeviceFactory
    /\ settings = NewGlobalSettings

Init ==
    /\ InitSystem
    /\ InitClient
    /\ script = << >>

\* Any public operation of RocketSystem, in any order.
Next ==
    \/ (\E kind \in ObserverKinds : addObserver(kind)) /\ UNCHANGED driver
    \/ performPreLaunchChecksBegin /\ UNCHANGED driver
    \/ performPreLaunchChecksEnd /\ UNCHANGED driver
    \/ launch /\ UNCHANGED driver
    \/ (\E n \in SecondsChoices : advanceTime(n)) /\ UNCHANGED driver
    \/ advanceStep /\ UNCHANGED driver

Spec == Init /\ [][Next]_vars

\* The scripted run of the specification's scenario: a fresh system,
\* performPreLaunchChecks(), launch(), then 70 seconds of advanceTime in one
\* call or split over two (advanceTime(10) then advanceTime(60) among them).
Scenarios ==
    {<<[call |-> "performPreLaunchChecks", n |-> 0],
       [call |-> "launch", n |-> 0],
       [call |-> "advanceTime", n |-> 70]>>}
    \cup
    {<<[call |-> "performPreLaunchChecks", n |-> 0],
       [call |-> "launch", n |-> 0],
       [call |-> "advanceTime", n |-> a],
       [call |-> "advanceTime", n |-> 70 - a]>> : a \in 1..69}

InitScenario ==
    /\ InitSystem
    /\ InitClient
    /\ script \in Scenarios

\* The next call of the script is name.
NextCall(name) ==
    /\ script # << >>
    /\ Head(script).call = name
    /\ script' = Tail(script)
    /\ UNCHANGED client

NextScenario ==
    \/ NextCall("performPreLaunchChecks") /\ performPreLaunchChecksBegin
    \/ performPreLaunchChecksEnd /\ UNCHANGED driver
    \/ NextCall("launch") /\ launch
    \/ NextCall("advanceTime") /\ advanceTime(Head(script).n)
    \/ advanceStep /\ UNCHANGED driver

SpecScenario == InitScenario /\ [][NextScenario]_vars

\* ------------------------------------------------------ flights that end

\* The seconds of the advanceTime calls of a flight that is carried on.
FlightSeconds == (1 .. MaxSeconds) \cup {10, 60}

\* advanceTime called again, with a second or more, while the flight lasts.
carryOn == \E n \in FlightSeconds : state.status = IN_FLIGHT /\ advanceTime(n)

\* Flights without observers, one after the other: during a flight nothing
\* but advanceTime of a second or more is called; between flights, anything.
NextFlight ==
    \/ state.status # IN_FLIGHT /\ performPreLaunchChecksBegin
         /\ UNCHANGED driver
    \/ performPreLaunchChecksEnd /\ UNCHANGED driver
    \/ state.status # IN_FLIGHT /\ launch /\ UNCHANGED driver
    \/ carryOn /\ UNCHANGED driver
    \/ advanceStep /\ UNCHANGED driver

\* A call of advanceTime that has begun runs on, and the caller of a flight
\* that lasts calls advanceTime again.
SpecFlight ==
    /\ Init
    /\ [][NextFlight]_vars
    /\ WF_vars(advanceStep /\ UNCHANGED driver)
    /\ WF_vars(carryOn /\ UNCHANGED driver)

\* ------------------------------------------------------- StageFactory

\* The stage numbers createStage is called with, and the fuel levels the
\* strategy it returns is then asked about.
StageNumbers == -1 .. MaxStageNumber

FuelLevels == 0 .. Pct(100)

\* StageFactory.createStage(n) called by itself, and shouldSeparate(f) then
\* asked of the strategy returned.
createStageCall(n, f) ==
    /\ factory' = [stageNumber |-> n, fuel |-> f,
                   strategy |-> createStage(n),
                   result |-> IF createStage(n) = NoStrategy
                              THEN "SimulatorException" ELSE "returned"]
    /\ UNCHANGED <<system, script, commandHistory, command, input, snapshot,
                   patterns>>

NextFactory == \E n \in StageNumbers, f \in FuelLevels : createStageCall(n, f)

SpecFactory == Init /\ [][NextFactory]_vars

\* ------------------------------------------------------- CommandInvoker

\* The seconds a FastForwardCommand is built with.
CommandSeconds == {-1, 0, MaxSeconds, 10}

Commands ==
    {[kind |-> "StartChecks", seconds |-> 0], [kind |-> "Launch", seconds |-> 0]}
    \cup {[kind |-> "FastForward", seconds |-> n] : n \in CommandSeconds}

\* Mutant: FastForwardCommand.canExecute without its test of the seconds.
canExecuteAnySeconds(c, s) ==
    CASE c.kind = "StartChecks" -> s.status = PRE_LAUNCH
      [] c.kind = "Launch" -> s.status = READY_TO_LAUNCH
      [] c.kind = "FastForward" -> s.status = IN_FLIGHT

\* Mutant: StartChecksCommand.canExecute true in every status.
canExecuteChecksAnywhere(c, s) ==
    CASE c.kind = "StartChecks" -> TRUE
      [] c.kind = "Launch" -> s.status = READY_TO_LAUNCH
      [] c.kind = "FastForward" -> s.status = IN_FLIGHT /\ c.seconds > 0

\* canExecute of the three commands, on the state getState() returned.
canExecute(c, s) ==
    CASE c.kind = "StartChecks" -> s.status = PRE_LAUNCH
      [] c.kind = "Launch" -> s.status = READY_TO_LAUNCH
      [] c.kind = "FastForward" -> s.status = IN_FLIGHT /\ c.seconds > 0

\* execute of the three commands, up to the first step of the call it makes.
execute(c) ==
    CASE c.kind = "StartChecks" -> performPreLaunchChecksBegin
      [] c.kind = "Launch" -> launch
      [] c.kind = "FastForward" -> advanceTime(c.seconds)

\* Mutant: the command recorded before execute() is called.
pushBeforeExecute(history, c, res) == Append(history, c)

\* command.execute(); this.commandHistory.push(command): the push is reached
\* only when execute() returned.
push(history, c, res) ==
    IF res = "returned" THEN Append(history, c) ELSE history

\* executeCommand(c) after a step of c.execute(): still executing, or ended
\* as execute() ended, the error logged and thrown again.
settle(c) ==
    IF pc' = "idle"
    THEN /\ command' = [kind |-> c.kind, seconds |-> c.seconds,
                        result |-> result', executed |-> TRUE]
         /\ commandHistory' =
                push(commandHistory, [kind |-> c.kind, seconds |-> c.seconds],
                     result')
    ELSE /\ command' = [kind |-> c.kind, seconds |-> c.seconds,
                        result |-> "executing", executed |-> TRUE]
         /\ UNCHANGED commandHistory

\* CommandInvoker.executeCommand(c), up to the first step of c.execute().
executeCommand(c) ==
    /\ pc = "idle"
    /\ IF canExecute(c, getState(state).value)
       THEN /\ execute(c)
            /\ settle(c)
       ELSE /\ command' = [kind |-> c.kind, seconds |-> c.seconds,
                           result |-> "InvalidStateException",
                           executed |-> FALSE]
            /\ UNCHANGED <<system, commandHistory>>

\* The rest of a StartChecksCommand's execute().
executeChecksEnd ==
    /\ command.result = "executing"
    /\ performPreLaunchChecksEnd
    /\ settle(command)

\* One more second of a FastForwardCommand's execute().
executeAdvanceStep ==
    /\ command.result = "executing"
    /\ advanceStep
    /\ settle(command)

\* Mutant: getHistory returning the stored array.
getHistoryAliased(history) == [object |-> "this.commandHistory", value |-> history]

\* getHistory: return [...this.commandHistory], a new array.
getHistory(history) == [object |-> "copy", value |-> history]

\* The stored history after the holder of ref has written w to the array.
writeThroughHistory(ref, history, w) ==
    IF ref.object = "this.commandHistory" THEN w ELSE history

getHistoryCall ==
    /\ pc = "idle"
    /\ commandHistory # << >>
    /\ snapshot' = getHistory(commandHistory)
    /\ UNCHANGED <<system, script, commandHistory, command, input, factory,
                   patterns>>

\* The caller empties the array getHistory returned.
clearReturnedHistory ==
    /\ snapshot.object # "none"
    /\ snapshot.value # << >>
    /\ snapshot' = [snapshot EXCEPT !.value = << >>]
    /\ commandHistory' = writeThroughHistory(snapshot, commandHistory, << >>)
    /\ UNCHANGED <<system, script, command, input, factory, patterns>>

\* Commands given to one CommandInvoker, on a RocketSystem reached through
\* them alone.
NextCommands ==
    \/ (\E kind \in ObserverKinds : addObserver(kind)) /\ UNCHANGED driver
    \/ (\E c \in Commands : executeCommand(c)) /\ UNCHANGED caller
    \/ executeChecksEnd /\ UNCHANGED caller
    \/ executeAdvanceStep /\ UNCHANGED caller
    \/ getHistoryCall
    \/ clearReturnedHistory

SpecCommands == Init /\ [][NextCommands]_vars

\* ------------------------------------------------ RocketLaunchSimulator

\* A string is the sequence of its characters.
StartChecksWord ==
    <<"s", "t", "a", "r", "t", "_", "c", "h", "e", "c", "k", "s">>

LaunchWord ==
    <<"l", "a", "u", "n", "c", "h">>

FastForwardWord ==
    <<"f", "a", "s", "t", "_", "f", "o", "r", "w", "a", "r", "d">>

StatusWord ==
    <<"s", "t", "a", "t", "u", "s">>

HelpWord ==
    <<"h", "e", "l", "p">>

\* The lines given to processInput: the commands as documented, in other
\* letter case and with blanks around them, fast_forward with arguments of
\* every shape, and lines that are no command.
InputLines ==
    {StartChecksWord,
     <<" ", "S", "t", "a", "r", "t", "_", "C", "h", "e", "c", "k", "s", " ">>,
     LaunchWord,
     <<"L", "A", "U", "N", "C", "H", "\t">>,
     FastForwardWord \o <<" ", "3">>,
     FastForwardWord \o <<" ", "1", "0">>,
     <<"F", "A", "S", "T", "_", "F", "O", "R", "W", "A", "R", "D", " ", "3">>,
     FastForwardWord,
     FastForwardWord \o <<" ", "0">>,
     FastForwardWord \o <<" ", "-", "1">>,
     FastForwardWord \o <<" ", "a", "b", "c">>,
     FastForwardWord \o <<" ", "3", " ", "4">>,
     FastForwardWord \o <<" ", " ", "3">>,
     FastForwardWord \o <<" ", "3", ".", "5">>,
     FastForwardWord \o <<" ", "1", "0", "s">>,
     FastForwardWord \o <<" ", "+", "1", "0">>,
     FastForwardWord \o <<"x", " ", "3">>,
     StatusWord,
     HelpWord,
     <<"e", "x", "i", "t">>,
     << >>,
     <<"l", "a", "u", "n", "c", "h", "e", "d">>}

Whitespace == {" ", "\t"}

UpperCaseLetters ==
    <<"A", "B", "C", "D", "E", "F", "G", "H", "I", "J", "K", "L", "M", "N",
      "O", "P", "Q", "R", "S", "T", "U", "V", "W", "X", "Y", "Z">>

LowerCaseLetters ==
    <<"a", "b", "c", "d", "e", "f", "g", "h", "i", "j", "k", "l", "m", "n",
      "o", "p", "q", "r", "s", "t", "u", "v", "w", "x", "y", "z">>

Digits == <<"0", "1", "2", "3", "4", "5", "6", "7", "8", "9">>

\* String.prototype.trim: the blanks at both ends removed.
RECURSIVE trimStart(_)
trimStart(str) ==
    IF str # << >> /\ Head(str) \in Whitespace THEN trimStart(Tail(str))
    ELSE str

RECURSIVE trimEnd(_)
trimEnd(str) ==
    IF str # << >> /\ str[Len(str)] \in Whitespace
    THEN trimEnd(SubSeq(str, 1, Len(str) - 1))
    ELSE str

trim(str) == trimEnd(trimStart(str))

\* String.prototype.toLowerCase.
toLowerCase(str) ==
    [k \in 1..Len(str) |->
        IF \E j \in 1..26 : UpperCaseLetters[j] = str[k]
        THEN LowerCaseLetters[CHOOSE j \in 1..26 : UpperCaseLetters[j] = str[k]]
        ELSE str[k]]

\* String.prototype.startsWith.
startsWith(str, prefix) ==
    /\ Len(str) >= Len(prefix)
    /\ SubSeq(str, 1, Len(prefix)) = prefix

\* String.prototype.split(' '): the pieces between the blanks, the empty
\* ones included.
RECURSIVE split(_)
split(str) ==
    IF \E k \in 1..Len(str) : str[k] = " "
    THEN LET k == CHOOSE k \in 1..Len(str) :
                    str[k] = " " /\ \A j \in 1..(k - 1) : str[j] # " "
         IN  <<SubSeq(str, 1, k - 1)>> \o split(SubSeq(str, k + 1, Len(str)))
    ELSE <<str>>

\* The number written by the longest prefix of digits of str, after acc.
RECURSIVE digitsValue(_, _)
digitsValue(str, acc) ==
    IF str # << >> /\ \E d \in 1..10 : Digits[d] = Head(str)
    THEN digitsValue(Tail(str),
                     10 * acc + (CHOOSE d \in 1..10 : Digits[d] = Head(str)) - 1)
    ELSE acc

\* parseInt(str, 10): blanks skipped, a sign, then the digits up to the
\* first character that is none; NaN when there is no digit there.
parseInt(str) ==
    LET body == trimStart(str)
        signed == body # << >> /\ Head(body) \in {"+", "-"}
        digits == IF signed THEN Tail(body) ELSE body
        magnitude == digitsValue(digits, 0)
    IN  IF digits = << >> \/ ~\E d \in 1..10 : Digits[d] = Head(digits)
        THEN [isNaN |-> TRUE, value |-> 0]
        ELSE [isNaN |-> FALSE,
              value |-> IF signed /\ Head(body) = "-"
                        THEN 0 - magnitude ELSE magnitude]

\* The try block of processInput up to the call of executeCommand: the
\* command it builds, the display it prints, or the error it throws.
parse(line) ==
    LET trimmedInput == toLowerCase(trim(line))
    IN  IF trimmedInput = StartChecksWord
        THEN [kind |-> "command",
              command |-> [kind |-> "StartChecks", seconds |-> 0]]
        ELSE IF trimmedInput = LaunchWord
        THEN [kind |-> "command",
              command |-> [kind |-> "Launch", seconds |-> 0]]
        ELSE IF startsWith(trimmedInput, FastForwardWord)
        THEN LET parts == split(trimmedInput)
             IN  IF Len(parts) # 2
                 THEN [kind |-> "error", error |-> "InvalidCommandException"]
                 ELSE IF parseInt(parts[2]).isNaN
                         \/ parseInt(parts[2]).value <= 0
                 THEN [kind |-> "error", error |-> "SimulatorException"]
                 ELSE [kind |-> "command",
                       command |-> [kind |-> "FastForward",
                                    seconds |-> parseInt(parts[2]).value]]
        ELSE IF trimmedInput = StatusWord
        THEN [kind |-> "display", display |-> "displayStatus"]
        ELSE IF trimmedInput = HelpWord
        THEN [kind |-> "display", display |-> "displayHelp"]
        ELSE [kind |-> "error", error |-> "InvalidCommandException"]

\* Mutant: the catch of processInput throwing the error again, as the catch
\* of executeCommand does.
catchAndRethrow(res) == [result |-> res, logged |-> res]

\* The catch of processInput: whatever was thrown is logged, and the call
\* returns.
catch(res) ==
    IF res = "returned"
    THEN [result |-> "returned", logged |-> "none"]
    ELSE [result |-> "returned", logged |-> res]

\* processInput(line) after a step of executeCommand.
finish(line) ==
    IF command'.result = "executing"
    THEN input' = [line |-> line, result |-> "executing", logged |-> "none"]
    ELSE input' = [line |-> line, result |-> catch(command'.result).result,
                   logged |-> catch(command'.result).logged]

\* RocketLaunchSimulator.processInput(line), up to the first step of the
\* command it executes.
processInput(line) ==
    /\ pc = "idle"
    /\ CASE parse(line).kind = "command" ->
              /\ executeCommand(parse(line).command)
              /\ finish(line)
         [] parse(line).kind = "display" ->
              /\ input' = [line |-> line, result |-> "returned",
                           logged |-> "none"]
              /\ UNCHANGED <<system, commandHistory, command>>
         [] parse(line).kind = "error" ->
              /\ input' = [line |-> line,
                           result |-> catch(parse(line).error).result,
                           logged |-> catch(parse(line).error).logged]
              /\ UNCHANGED <<system, commandHistory, command>>
    /\ UNCHANGED <<script, snapshot, factory, patterns>>

\* The rest of processInput('start_checks').
processChecksEnd ==
    /\ input.result = "executing"
    /\ executeChecksEnd
    /\ finish(input.line)
    /\ UNCHANGED <<script, snapshot, factory, patterns>>

\* One more second of processInput('fast_forward N').
processAdvanceStep ==
    /\ input.result = "executing"
    /\ executeAdvanceStep
    /\ finish(input.line)
    /\ UNCHANGED <<script, snapshot, factory, patterns>>

\* new RocketLaunchSimulator(): a fresh system with the ConsoleDisplay, which
\* returns, as its only observer.
InitSimulator ==
    /\ state = NewRocketState
    /\ currentStageStrategy = NoStrategy
    /\ observers = <<"ok">>
    /\ pc = "idle"
    /\ op = "none"
    /\ result = "none"
    /\ seconds = 0
    /\ i = 0
    /\ steps = 0
    /\ haltedAt = 0
    /\ notifyCalls = 0
    /\ invoked = 0
    /\ delivered = << >>
    /\ transient = {}
    /\ InitClient
    /\ script = << >>

\* The lines of an interactive session, in any order.
NextSimulator ==
    \/ \E line \in InputLines : processInput(line)
    \/ processChecksEnd
    \/ processAdvanceStep

SpecSimulator == InitSimulator /\ [][NextSimulator]_vars

\* ----------------------------------------------------------- getState

\* The writes a caller makes to an object it was returned: one per field.
CallerWrites(s) ==
    {[s EXCEPT !.stage = 2], [s EXCEPT !.fuel = Pct(100)],
     [s EXCEPT !.altitude = 0], [s EXCEPT !.speed = 0],
     [s EXCEPT !.status = PRE_LAUNCH]}

\* getState() called between two operations.
getStateCall ==
    /\ pc = "idle"
    /\ snapshot' = getState(state)
    /\ UNCHANGED <<system, script, commandHistory, command, input, factory,
                   patterns>>

\* The caller writes to a field of the object getState returned.
writeReturnedState(w) ==
    /\ pc = "idle"
    /\ snapshot.object # "none"
    /\ snapshot' = [snapshot EXCEPT !.value = w]
    /\ state' = writeThrough(snapshot, state, w)
    /\ UNCHANGED <<currentStageStrategy, observers, pc, op, result, seconds,
                   i, steps, haltedAt, notifyCalls, invoked, delivered,
                   transient, script, commandHistory, command, input, factory,
                   patterns>>

\* One flight of a fresh system without observers, getState called and the
\* object it returned written to at any point between the operations.
NextSnapshots ==
    \/ state.status = PRE_LAUNCH /\ performPreLaunchChecksBegin
         /\ UNCHANGED driver
    \/ performPreLaunchChecksEnd /\ UNCHANGED driver
    \/ launch /\ UNCHANGED driver
    \/ (\E n \in {MaxSeconds, 10} : advanceTime(n)) /\ UNCHANGED driver
    \/ advanceStep /\ UNCHANGED driver
    \/ getStateCall
    \/ \E w \in CallerWrites(valueOf(snapshot, state)) : writeReturnedState(w)

SpecSnapshots == Init /\ [][NextSnapshots]_vars

\* ------------------------------------------------- observers that write

\* An observer may also write to the object it is handed, and return.
WritingObserverKinds == ObserverKinds \cup {"writes"}

\* One flight of a fresh system, the observers of any of the three kinds.
NextWriters ==
    \/ (\E kind \in WritingObserverKinds : addObserver(kind))
         /\ UNCHANGED driver
    \/ state.status = PRE_LAUNCH /\ performPreLaunchChecksBegin
         /\ UNCHANGED driver
    \/ performPreLaunchChecksEnd /\ UNCHANGED driver
    \/ launch /\ UNCHANGED driver
    \/ (\E n \in {MaxSeconds, 10} : advanceTime(n)) /\ UNCHANGED driver
    \/ advanceStep /\ UNCHANGED driver

SpecWriters == Init /\ [][NextWriters]_vars

\* -------------------------------------------------- SportsEventSubject

\* The observers that subscribe: an id each, and an update that returns or
\* raises; two objects may have the same id.
Subscribers ==
    [id : 1 .. MaxSubscribers, kind : ObserverKinds]

\* this.observers.has(id)
has(obs, id) == \E k \in 1..Len(obs) : obs[k].id = id

\* Mutant: subscribe without its test of has(id).
setObserverAgain(obs, o) == Append(obs, o)

\* if (this.observers.has(id)) return; this.observers.set(id, observer)
setObserver(obs, o) == IF has(obs, o.id) THEN obs ELSE Append(obs, o)

\* this.observers.delete(id): the entry of that id taken out, the order of
\* the others kept.
RECURSIVE deleteObserver(_, _)
deleteObserver(obs, id) ==
    IF obs = << >> THEN << >>
    ELSE IF Head(obs).id = id THEN deleteObserver(Tail(obs), id)
    ELSE <<Head(obs)>> \o deleteObserver(Tail(obs), id)

\* Mutant: the forEach without the try around update.
updateAllUntilError(obs) ==
    IF \E k \in 1..Len(obs) : obs[k].kind = "throws"
    THEN LET first == CHOOSE k \in 1..Len(obs) :
                        /\ obs[k].kind = "throws"
                        /\ \A j \in 1..(k - 1) : obs[j].kind # "throws"
         IN  [updated |-> [k \in 1..first |-> obs[k].id], result |-> "Error"]
    ELSE [updated |-> [k \in 1..Len(obs) |-> obs[k].id],
          result |-> "returned"]

\* SportsEventSubject.notifyObservers: update called on every observer in
\* insertion order, each call in its own try; the ids called, and the
\* outcome.
updateAll(obs) ==
    [updated |-> [k \in 1..Len(obs) |-> obs[k].id], result |-> "returned"]

subscribe(o) ==
    /\ subject' = [subject EXCEPT
                     !.observers = setObserver(@, o),
                     !.call = [op |-> "subscribe", result |-> "returned",
                               updated |-> << >>]]
    /\ UNCHANGED <<simulator, email, deviceFactory, settings>>

unsubscribe(o) ==
    /\ subject' = [subject EXCEPT
                     !.observers = deleteObserver(@, o.id),
                     !.call = [op |-> "unsubscribe", result |-> "returned",
                               updated |-> << >>]]
    /\ UNCHANGED <<simulator, email, deviceFactory, settings>>

\* The event pushed to the history, then the observers notified.
publish(name, event) ==
    /\ Len(subject.eventHistory) < MaxEvents
    /\ subject' = [subject EXCEPT
                     !.eventHistory = Append(@, event),
                     !.call = [op |-> name,
                               result |-> updateAll(subject.observers).result,
                               updated |-> updateAll(subject.observers).updated]]
    /\ UNCHANGED <<simulator, email, deviceFactory, settings>>

\* scoreUpdate(team, score): an empty team name or a negative score raises
\* before there is an event.
scoreUpdate(team, score) ==
    IF team = << >> \/ score < 0
    THEN /\ subject' = [subject EXCEPT
                          !.call = [op |-> "scoreUpdate", result |-> "Error",
                                    updated |-> << >>]]
         /\ UNCHANGED <<simulator, email, deviceFactory, settings>>
    ELSE publish("scoreUpdate", [type |-> "score_update", score |-> score])

gameEnd == publish("gameEnd", [type |-> "game_end", score |-> 0])

NextSubject ==
    \/ \E o \in Subscribers : subscribe(o)
    \/ \E o \in Subscribers : unsubscribe(o)
    \/ \E team \in {<< >>, <<"A">>}, score \in {-1, 0, 1} :
           scoreUpdate(team, score)
    \/ gameEnd

SpecSubject == Init /\ [][NextSubject]_vars

\* ------------------------------------------------------ EmailDecorator

DecoratorNames ==
    {"SignatureDecorator", "PromoDecorator", "EncryptionDecorator",
     "FooterDecorator", "HighlightDecorator"}

\* BasicEmail.getMetadata: return { ...this.metadata }, a new object whose
\* decorators field is the array of this.metadata itself.
basicGetMetadata(e) ==
    [object |-> "this.metadata.decorators", value |-> e.decorators]

\* metadata.decorators.push(this.constructor.name)
pushName(ref, name) == [ref EXCEPT !.value = Append(@, name)]

\* getMetadata of the k-th layer of e (the BasicEmail being layer 0): the
\* metadata of the layer inside, with the name of this layer pushed.
RECURSIVE getMetadata(_, _)
getMetadata(e, k) ==
    IF k = 0 THEN basicGetMetadata(e)
    ELSE pushName(getMetadata(e, k - 1), e.layers[k])

\* The array of the BasicEmail after a getMetadata call that returned ref.
decoratorsAfter(e, ref) ==
    IF ref.object = "this.metadata.decorators" THEN ref.value
    ELSE e.decorators

\* new XDecorator(email): one more layer around the email.
wrap(name) ==
    /\ Len(email.layers) < MaxDecorators
    /\ email' = [email EXCEPT !.layers = Append(@, name)]
    /\ UNCHANGED <<simulator, subject, deviceFactory, settings>>

\* getMetadata() called on the k-th layer.
getMetadataCall(k) ==
    /\ email.calls < MaxMetadataCalls
    /\ email' = [email EXCEPT
                   !.decorators = decoratorsAfter(email, getMetadata(email, k)),
                   !.calls = @ + 1,
                   !.call = [op |-> "getMetadata", layer |-> k,
                             returned |-> getMetadata(email, k).value]]
    /\ UNCHANGED <<simulator, subject, deviceFactory, settings>>

NextEmail ==
    \/ \E name \in DecoratorNames : wrap(name)
    \/ \E k \in 0 .. Len(email.layers) : getMetadataCall(k)

SpecEmail == Init /\ [][NextEmail]_vars

\* --------------------------------------------------- SmartDeviceFactory

\* The types createDevice is called with: the three it supports, one of
\* them in capitals, one it does not support, and the empty string.
DeviceTypes ==
    {<<"l", "i", "g", "h", "t">>, <<"c", "a", "m", "e", "r", "a">>,
     <<"t", "h", "e", "r", "m", "o", "s", "t", "a", "t">>,
     <<"L", "I", "G", "H", "T">>, <<"r", "o", "b", "o", "t">>, << >>}

SupportedTypes ==
    {<<"l", "i", "g", "h", "t">>, <<"c", "a", "m", "e", "r", "a">>,
     <<"t", "h", "e", "r", "m", "o", "s", "t", "a", "t">>}

\* The customId argument: left out, the empty string, or an id.
CustomIds == {"undefined", "", "living-room-light"}

\* const deviceId = customId || `${type}-${++this.deviceCounter}`: the
\* counter after this line; it is counted up only when customId is falsy.
counterAfterId(counter, customId) ==
    IF customId \in {"undefined", ""} THEN counter + 1 ELSE counter

\* SmartDeviceFactory.createDevice(type, customId). The id of the device is
\* never empty (a customId that is truthy, or a type that is non-empty
\* followed by the counter) nor blank here, so the constructors do not raise.
createDevice(type, customId) ==
    /\ deviceFactory.calls < MaxDevices
    /\ IF type = << >>
       THEN deviceFactory' =
              [deviceFactory EXCEPT
                 !.calls = @ + 1,
                 !.call = [type |-> type, customId |-> customId,
                           result |-> "Error"]]
       ELSE IF toLowerCase(type) \notin SupportedTypes
       THEN deviceFactory' =
              [deviceFactory EXCEPT
                 !.deviceCounter = counterAfterId(@, customId),
                 !.calls = @ + 1,
                 !.call = [type |-> type, customId |-> customId,
                           result |-> "Error"]]
       ELSE deviceFactory' =
              [deviceFactory EXCEPT
                 !.deviceCounter = counterAfterId(@, customId),
                 !.created = @ + 1,
                 !.calls = @ + 1,
                 !.call = [type |-> type, customId |-> customId,
                           result |-> "returned"]]
    /\ UNCHANGED <<simulator, subject, email, settings>>

NextDevices ==
    \E type \in DeviceTypes, customId \in CustomIds : createDevice(type, customId)

SpecDevices == Init /\ [][NextDevices]_vars

\* -------------------------------------------------- EncryptionDecorator

\* The 64 characters of base64, the character of value v at place v + 1.
Base64Alphabet ==
    <<"A", "B", "C", "D", "E", "F", "G", "H", "I", "J", "K", "L", "M",
      "N", "O", "P", "Q", "R", "S", "T", "U", "V", "W", "X", "Y", "Z",
      "a", "b", "c", "d", "e", "f", "g", "h", "i", "j", "k", "l", "m",
      "n", "o", "p", "q", "r", "s", "t", "u", "v", "w", "x", "y", "z",
      "0", "1", "2", "3", "4", "5", "6", "7", "8", "9", "+", "/">>

\* The value of a character of the alphabet.
base64Value(c) == (CHOOSE v \in 1..64 : Base64Alphabet[v] = c) - 1

\* The character code of a character of the alphabet.
charCode(c) ==
    LET v == base64Value(c)
    IN  IF v < 26 THEN 65 + v
        ELSE IF v < 52 THEN 97 + (v - 26)
        ELSE IF v < 62 THEN 48 + (v - 52)
        ELSE IF v = 62 THEN 43 ELSE 47

\* The messages that are encrypted: of letters and digits, so that each
\* character is one byte and is also a character of base64.
MessageChars == {"a", "Q", "0"}

RECURSIVE MessagesOfLen(_)
MessagesOfLen(n) ==
    IF n = 0 THEN {<< >>}
    ELSE {<<c>> \o m : c \in MessageChars, m \in MessagesOfLen(n - 1)}

Messages == UNION {MessagesOfLen(n) : n \in 0 .. MaxMessageLen}

\* '[ENCRYPTED]\n'
EncryptedMark ==
    <<"[", "E", "N", "C", "R", "Y", "P", "T", "E", "D", "]", "\n">>

\* btoa: every three bytes written as four characters, one or two bytes
\* left over as two or three characters and padding.
RECURSIVE btoa(_)
btoa(str) ==
    IF str = << >> THEN << >>
    ELSE IF Len(str) = 1
    THEN LET n == charCode(str[1]) * 16
         IN  <<Base64Alphabet[(n \div 64) + 1], Base64Alphabet[(n % 64) + 1],
               "=", "=">>
    ELSE IF Len(str) = 2
    THEN LET n == (charCode(str[1]) * 256 + charCode(str[2])) * 4
         IN  <<Base64Alphabet[(n \div 4096) + 1],
               Base64Alphabet[((n \div 64) % 64) + 1],
               Base64Alphabet[(n % 64) + 1], "=">>
    ELSE LET n == charCode(str[1]) * 65536 + charCode(str[2]) * 256
                    + charCode(str[3])
         IN  <<Base64Alphabet[(n \div 262144) + 1],
               Base64Alphabet[((n \div 4096) % 64) + 1],
               Base64Alphabet[((n \div 64) % 64) + 1],
               Base64Alphabet[(n % 64) + 1]>>
             \o btoa(SubSeq(str, 4, Len(str)))

\* The characters of base64 of str up to the first padding character, those
\* that are no character of base64 left out.
RECURSIVE base64Characters(_)
base64Characters(str) ==
    IF str = << >> \/ Head(str) = "=" THEN << >>
    ELSE IF \E v \in 1..64 : Base64Alphabet[v] = Head(str)
    THEN <<Head(str)>> \o base64Characters(Tail(str))
    ELSE base64Characters(Tail(str))

\* The bytes written by characters of base64: three for every four, one for
\* two left over, two for three left over, none for one.
RECURSIVE base64Bytes(_)
base64Bytes(str) ==
    IF Len(str) < 2 THEN << >>
    ELSE IF Len(str) = 2
    THEN <<(base64Value(str[1]) * 64 + base64Value(str[2])) \div 16>>
    ELSE IF Len(str) = 3
    THEN LET n == (base64Value(str[1]) * 4096 + base64Value(str[2]) * 64
                     + base64Value(str[3])) \div 4
         IN  <<n \div 256, n % 256>>
    ELSE LET n == base64Value(str[1]) * 262144 + base64Value(str[2]) * 4096
                    + base64Value(str[3]) * 64 + base64Value(str[4])
         IN  <<n \div 65536, (n \div 256) % 256, n % 256>>
             \o base64Bytes(SubSeq(str, 5, Len(str)))

\* Buffer.from(str, "base64").toString("utf-8"), as character codes: a byte
\* below 128 is the character of that code; a byte from 128 on is part of a
\* character beyond 127 or is replaced by U+FFFD, written 65533 here.
fromBase64(str) ==
    LET bytes == base64Bytes(base64Characters(str))
    IN  [k \in 1..Len(bytes) |-> IF bytes[k] < 128 THEN bytes[k] ELSE 65533]

\* String.prototype.replace(pattern, ''): the first occurrence taken out.
replaceFirst(str, pattern) ==
    IF \E k \in 1..(Len(str) - Len(pattern) + 1) :
           SubSeq(str, k, k + Len(pattern) - 1) = pattern
    THEN LET k == CHOOSE k \in 1..(Len(str) - Len(pattern) + 1) :
                    /\ SubSeq(str, k, k + Len(pattern) - 1) = pattern
                    /\ \A j \in 1..(k - 1) :
                         SubSeq(str, j, j + Len(pattern) - 1) # pattern
         IN  SubSeq(str, 1, k - 1) \o SubSeq(str, k + Len(pattern), Len(str))
    ELSE str

\* The character codes of a message.
charCodes(str) == [k \in 1..Len(str) |-> charCode(str[k])]

\* EncryptionDecorator.getContent of an EncryptionDecorator around a
\* BasicEmail.
getContent(e) == EncryptedMark \o btoa(e.message)

\* EncryptionDecorator.getDecryptedContent: this.email.getContent() is the
\* content of the email inside, the message itself.
getDecryptedContent(e) == fromBase64(replaceFirst(e.message, EncryptedMark))

\* new EncryptionDecorator(new BasicEmail(subject, message))
newEncryptedEmail(message) ==
    /\ email' = [NewBasicEmail(message) EXCEPT
                   !.layers = <<"EncryptionDecorator">>]
    /\ UNCHANGED <<simulator, subject, deviceFactory, settings>>

getContentCall ==
    /\ email.layers = <<"EncryptionDecorator">>
    /\ email' = [email EXCEPT
                   !.encrypted = TRUE,
                   !.call = [op |-> "getContent", layer |-> 1,
                             returned |-> getContent(email)]]
    /\ UNCHANGED <<simulator, subject, deviceFactory, settings>>

getDecryptedContentCall ==
    /\ email.layers = <<"EncryptionDecorator">>
    /\ email' = [email EXCEPT
                   !.call = [op |-> "getDecryptedContent", layer |-> 1,
                             returned |-> getDecryptedContent(email)]]
    /\ UNCHANGED <<simulator, subject, deviceFactory, settings>>

NextEncryption ==
    \/ \E message \in Messages : newEncryptedEmail(message)
    \/ getContentCall
    \/ getDecryptedContentCall

SpecEncryption == Init /\ [][NextEncryption]_vars

\* ------------------------------------------------------ GlobalSettings

\* The keys set and remove are called with: the three with a validation
\* rule, one without, and the empty string.
SettingKeys == {"", "maxRetries", "timeoutMs", "debugMode", "theme"}

\* The values set is called with: numbers at and beyond the ends of the two
\* ranges, and a boolean.
SettingValues ==
    {Value("number", n) : n \in {-1, 10, 11, 999, 1000, 30001}}
    \cup {Value("boolean", 1)}

\* Mutant: the rule of maxRetries without its upper end.
validateSettingNoUpperEnd(key, v) ==
    CASE key = "maxRetries" -> v.type = "number" /\ v.n >= 0
      [] key = "timeoutMs" -> v.type = "number" /\ v.n >= 1000 /\ v.n <= 30000
      [] key = "debugMode" -> v.type = "boolean"
      [] OTHER -> TRUE

\* validateSetting with the rules of setupValidationRules; a key without a
\* rule allows any value.
validateSetting(key, v) ==
    CASE key = "maxRetries" -> v.type = "number" /\ v.n >= 0 /\ v.n <= 10
      [] key = "timeoutMs" -> v.type = "number" /\ v.n >= 1000 /\ v.n <= 30000
      [] key = "debugMode" -> v.type = "boolean"
      [] OTHER -> TRUE

\* this.settings.get(key)
settingsGet(map, key) == IF key \in DOMAIN map THEN map[key] ELSE Undefined

\* this.settings.set(key, value)
settingsSet(map, key, v) ==
    [k \in DOMAIN map \cup {key} |-> IF k = key THEN v ELSE map[k]]

\* this.settings.delete(key)
settingsDelete(map, key) == [k \in DOMAIN map \ {key} |-> map[k]]

\* GlobalSettings.set(key, value)
set(key, v) ==
    /\ IF key = "" \/ ~validateSetting(key, v)
       THEN settings' = [settings EXCEPT
                           !.call = [op |-> "set", key |-> key, value |-> v,
                                     result |-> "Error"]]
       ELSE /\ Len(settings.changeHistory) < MaxChanges
            /\ settings' =
                 [settings EXCEPT
                    !.settings = settingsSet(@, key, v),
                    !.changeHistory =
                        Append(@, [key |-> key,
                                   oldValue |-> settingsGet(settings.settings, key),
                                   newValue |-> v]),
                    !.call = [op |-> "set", key |-> key, value |-> v,
                              result |-> "returned"]]
    /\ UNCHANGED <<simulator, subject, email, deviceFactory>>

\* GlobalSettings.remove(key)
remove(key) ==
    /\ IF key = ""
       THEN settings' = [settings EXCEPT
                           !.call = [op |-> "remove", key |-> key,
                                     value |-> Undefined, result |-> "Error"]]
       ELSE settings' = [settings EXCEPT
                           !.settings = settingsDelete(@, key),
                           !.call = [op |-> "remove", key |-> key,
                                     value |-> Undefined,
                                     result |-> "returned"]]
    /\ UNCHANGED <<simulator, subject, email, deviceFactory>>

NextSettings ==
    \/ \E key \in SettingKeys, v \in SettingValues : set(key, v)
    \/ \E key \in SettingKeys : remove(key)

SpecSettings == Init /\ [][NextSettings]_vars

\* ------------------------------------------------------------------ claims

Terminal == {ORBIT_ACHIEVED, MISSION_FAILED}

AllObserversReturn == FirstThrower(observers) = 0

\* C1: once the status is ORBIT_ACHIEVED or MISSION_FAILED, no public
\* operation changes it.
C1_TerminalStatusIsFinal ==
    [][state.status \in Terminal => state'.status = state.status]_vars

\* The status changes of the specification's state machine, each with the
\* operation that makes it.
StatusEdges ==
    {<<PRE_LAUNCH, CHECKS_IN_PROGRESS, "performPreLaunchChecks">>,
     <<CHECKS_IN_PROGRESS, READY_TO_LAUNCH, "performPreLaunchChecks">>,
     <<READY_TO_LAUNCH, IN_FLIGHT, "launch">>,
     <<IN_FLIGHT, ORBIT_ACHIEVED, "advanceTime">>,
     <<IN_FLIGHT, MISSION_FAILED, "advanceTime">>}

\* C2: every change of status is one of the edges PRE_LAUNCH ->
\* CHECKS_IN_PROGRESS -> READY_TO_LAUNCH (performPreLaunchChecks),
\* READY_TO_LAUNCH -> IN_FLIGHT (launch), IN_FLIGHT -> ORBIT_ACHIEVED or
\* MISSION_FAILED (a step of advanceTime).
C2_OnlySpecifiedEdges ==
    [][state'.status # state.status
         => <<state.status, state'.status, op'>> \in StatusEdges]_vars

\* C3: launch() outside READY_TO_LAUNCH raises the invalid-state error, changes
\* neither the state nor the strategy and notifies no observer; in
\* READY_TO_LAUNCH, no observer raising, it returns with stage 1, IN_FLIGHT,
\* the Stage 1 strategy, and fuel, altitude and speed as they were.
C3_LaunchGuard ==
    [][launch =>
         IF state.status # READY_TO_LAUNCH
         THEN /\ result' = "InvalidStateException"
              /\ state' = state
              /\ currentStageStrategy' = currentStageStrategy
              /\ notifyCalls' = 0
              /\ invoked' = 0
         ELSE AllObserversReturn =>
              /\ result' = "returned"
              /\ state'.stage = 1
              /\ state'.status = IN_FLIGHT
              /\ currentStageStrategy' = Stage1Strategy
              /\ state'.fuel = state.fuel
              /\ state'.altitude = state.altitude
              /\ state'.speed = state.speed]_vars

\* A launch refused after the flight has ended, with observers registered.
C3_Witness ==
    /\ op = "launch"
    /\ result = "InvalidStateException"
    /\ state.status \in Terminal
    /\ Len(observers) > 0

\* C4: advanceTime(n) outside IN_FLIGHT raises the invalid-state error, runs
\* no step, changes neither the state nor the strategy and notifies no
\* observer.
C4_AdvanceGuard ==
    [][\A n \in SecondsChoices :
         (advanceTime(n) /\ state.status # IN_FLIGHT) =>
            /\ result' = "InvalidStateException"
            /\ pc' = "idle"
            /\ steps' = 0
            /\ state' = state
            /\ currentStageStrategy' = currentStageStrategy
            /\ notifyCalls' = 0
            /\ invoked' = 0]_vars

\* advanceTime refused in a terminal state, with observers registered.
C4_Witness ==
    /\ op = "advanceTime"
    /\ result = "InvalidStateException"
    /\ seconds > 0
    /\ state.status \in Terminal
    /\ Len(observers) > 0

\* C5: fuel is always within [0, 100]; no step increases it; a step that
\* would bring it to 0 or below leaves it at exactly 0.
C5_FuelClamped ==
    /\ [](state.fuel >= 0 /\ state.fuel <= Pct(100))
    /\ [][/\ state'.fuel <= state.fuel
          /\ (/\ advanceStep
              /\ state.fuel - getFuelConsumptionRate(currentStageStrategy) <= 0)
                => state'.fuel = 0]_vars

\* The fuel has run out during a flight.
C5_Witness ==
    /\ op = "advanceTime"
    /\ haltedAt > 0
    /\ state.fuel = 0
    /\ state.status = MISSION_FAILED

\* C6: altitude and speed never decrease, and a step that returns true adds
\* exactly the increments of the strategy that was active when it began.
C6_ClimbByActiveStage ==
    [][/\ state'.altitude >= state.altitude
       /\ state'.speed >= state.speed
       /\ (advanceStep /\ i' = i + 1) =>
            /\ state'.altitude =
                 state.altitude + (IF currentStageStrategy = Stage1Strategy
                                   THEN 10 ELSE 15)
            /\ state'.speed =
                 state.speed + (IF currentStageStrategy = Stage1Strategy
                                THEN 1000 ELSE 800)]_vars

\* A step of Stage 2 has returned true.
C6_Witness ==
    /\ op = "advanceTime"
    /\ state.stage = 2
    /\ currentStageStrategy = Stage2Strategy
    /\ i >= 2
    /\ state.status = IN_FLIGHT

\* C7: advanceTime(n), n >= 1, in flight: no step follows one that halts, and
\* a call that returns without a halt has run exactly n steps and left the
\* status IN_FLIGHT.
C7_StepsUntilHalt ==
    (op = "advanceTime" /\ seconds >= 1 /\ result # "InvalidStateException") =>
        /\ steps <= seconds
        /\ haltedAt # 0 =>
             /\ steps = haltedAt
             /\ pc = "idle"
             /\ state.status \in Terminal
        /\ (result = "returned" /\ haltedAt = 0) =>
             /\ steps = seconds
             /\ state.status = IN_FLIGHT

\* A call that a halting step has ended before its last second.
C7_Witness ==
    /\ op = "advanceTime"
    /\ result = "returned"
    /\ haltedAt > 1
    /\ haltedAt < seconds
    /\ steps = haltedAt

\* C8: a step that keeps fuel above 0 and ends with altitude >= 160 and
\* fuel >= 5 sets ORBIT_ACHIEVED and leaves the stage and the strategy alone,
\* whatever the separation predicate says; no step both increments the stage
\* and achieves orbit; a step ends IN_FLIGHT only with altitude < 160 or
\* fuel < 5.
C8_OrbitBeforeSeparation ==
    [][advanceStep =>
         LET fuel == state.fuel - getFuelConsumptionRate(currentStageStrategy)
             altitude ==
                 state.altitude + getAltitudeIncrement(currentStageStrategy)
         IN  /\ (fuel > 0 /\ altitude >= 160 /\ fuel >= Pct(5)) =>
                  /\ state'.status = ORBIT_ACHIEVED
                  /\ state'.stage = state.stage
                  /\ currentStageStrategy' = currentStageStrategy
             /\ ~(state'.stage # state.stage /\ state'.status = ORBIT_ACHIEVED)
             /\ state'.status = IN_FLIGHT =>
                  (state'.altitude < 160 \/ state'.fuel < Pct(5))]_vars

\* Orbit achieved by a Stage 1 step whose fuel satisfies the separation
\* predicate.
C8_Witness ==
    /\ op = "advanceTime"
    /\ haltedAt > 0
    /\ state.status = ORBIT_ACHIEVED
    /\ state.stage = 1
    /\ state.fuel <= Pct(30)

\* C9: a step whose fuel after the burn is <= 0 sets fuel to 0 and the status
\* to MISSION_FAILED, leaves altitude, speed and stage alone, notifies the
\* observers and ends the call; nothing else sets MISSION_FAILED.
C9_FuelExhaustion ==
    [][/\ (/\ advanceStep
           /\ state.fuel - getFuelConsumptionRate(currentStageStrategy) <= 0)
            => /\ state'.fuel = 0
               /\ state'.status = MISSION_FAILED
               /\ state'.altitude = state.altitude
               /\ state'.speed = state.speed
               /\ state'.stage = state.stage
               /\ notifyCalls' = notifyCalls + 1
               /\ AllObserversReturn =>
                    /\ invoked' = Len(observers)
                    /\ haltedAt' = steps'
                    /\ result' = "returned"
               /\ pc' = "idle"
       /\ (state'.status = MISSION_FAILED /\ state.status # MISSION_FAILED)
            => /\ advanceStep
               /\ state.fuel - getFuelConsumptionRate(currentStageStrategy)
                    <= 0]_vars

\* The mission has failed in front of observers, all of them notified.
C9_Witness ==
    /\ op = "advanceTime"
    /\ result = "returned"
    /\ state.status = MISSION_FAILED
    /\ Len(observers) > 0
    /\ invoked = Len(observers)
    /\ notifyCalls = steps

\* C10: the scenario ends in ORBIT_ACHIEVED with fuel 84, altitude 160, speed
\* 16000 and stage 1; orbit is reached by the 16th second of flight, the stage
\* never separates, and the seconds left of the call are not run.
C10_ScenarioReachesOrbit ==
    /\ state.status = IN_FLIGHT =>
         /\ state.stage = 1
         /\ state.fuel > Pct(84)
         /\ state.altitude = 10 * ((Pct(100) - state.fuel) \div Pct(1))
    /\ state.status # MISSION_FAILED
    /\ (script = << >> /\ pc = "idle") =>
         /\ state = [stage |-> 1, fuel |-> Pct(84), altitude |-> 160,
                     speed |-> 16000, status |-> ORBIT_ACHIEVED]
         /\ result = "returned" =>
              /\ haltedAt = steps
              /\ steps = 16 - (70 - seconds)
         /\ result # "returned" =>
              /\ result = "InvalidStateException"
              /\ 70 - seconds >= 16

\* The run split into advanceTime(10) and advanceTime(60) has ended.
C10_Witness ==
    /\ script = << >>
    /\ pc = "idle"
    /\ op = "advanceTime"
    /\ seconds = 60
    /\ steps = 6
    /\ state.status = ORBIT_ACHIEVED

\* C11: in the scenario performPreLaunchChecks() leaves READY_TO_LAUNCH,
\* launch() gives IN_FLIGHT with stage 1, and advanceTime(10) then gives fuel
\* 90, altitude 100, speed 10000, still IN_FLIGHT in stage 1.
C11_ScenarioFirstTenSeconds ==
    /\ (op = "performPreLaunchChecks" /\ pc = "idle") =>
         /\ result = "returned"
         /\ state = [NewRocketState EXCEPT !.status = READY_TO_LAUNCH]
    /\ op = "launch" =>
         /\ result = "returned"
         /\ state = [NewRocketState EXCEPT !.status = IN_FLIGHT, !.stage = 1]
    /\ (op = "advanceTime" /\ seconds = 10 /\ Len(script) = 1 /\ pc = "idle")
         => /\ result = "returned"
            /\ steps = 10
            /\ state = [stage |-> 1, fuel |-> Pct(90), altitude |-> 100,
                        speed |-> 10000, status |-> IN_FLIGHT]

\* advanceTime(10) has returned, advanceTime(60) still to be called.
C11_Witness ==
    /\ op = "advanceTime"
    /\ seconds = 10
    /\ steps = 10
    /\ Len(script) = 1
    /\ pc = "idle"
    /\ state.status = IN_FLIGHT

\* What a notification made of state s hands to the first n observers.
Handed(s, n) == [k \in 1..n |-> [observer |-> k, state |-> s]]

\* C15: whatever transient errors the five checks draw, performPreLaunchChecks
\* (no observer raising) returns with READY_TO_LAUNCH, has notified the
\* observers exactly once, of the READY_TO_LAUNCH state, and has left stage,
\* fuel, altitude and speed as they were.
C15_ChecksAlwaysPass ==
    [][/\ performPreLaunchChecksBegin =>
            /\ pc' = "checks"
            /\ notifyCalls' = 0
            /\ state' = [state EXCEPT !.status = CHECKS_IN_PROGRESS]
       /\ (performPreLaunchChecksEnd /\ AllObserversReturn) =>
            /\ result' = "returned"
            /\ pc' = "idle"
            /\ state' = [state EXCEPT !.status = READY_TO_LAUNCH]
            /\ notifyCalls' = 1
            /\ delivered' = Handed(state', Len(observers))]_vars

\* The checks have returned after a transient error in each of the five.
C15_Witness ==
    /\ op = "performPreLaunchChecks"
    /\ result = "returned"
    /\ transient = SystemChecks
    /\ state.status = READY_TO_LAUNCH
    /\ Len(delivered) > 0

\* C16 as claimed: every change of the state is followed at once by a
\* notification of every registered observer, in registration order, with the
\* state as changed.
C16_EveryMutationNotified ==
    [][state' # state =>
         /\ notifyCalls' >= 1
         /\ delivered' = Handed(state', Len(observers))]_vars

\* C16 as amended: the change to CHECKS_IN_PROGRESS is not notified, and the
\* READY_TO_LAUNCH notification of the same call follows it; every other
\* change of the state (READY_TO_LAUNCH, a launch, a one-second step) comes
\* with one notification, which hands the changed state to the observers in
\* registration order, an observer registered k times being called k times,
\* up to and including the first one that raises.
C16_NotifiedAfterEachOperation ==
    [][/\ state' # state =>
            IF state'.status = CHECKS_IN_PROGRESS
            THEN notifyCalls' = 0 /\ delivered' = << >>
            ELSE /\ notifyCalls' = IF pc = "idle" THEN 1 ELSE notifyCalls + 1
                 /\ delivered' =
                      Handed(state', IF AllObserversReturn
                                     THEN Len(observers)
                                     ELSE FirstThrower(observers))
       /\ pc = "checks" =>
            /\ state'.status = READY_TO_LAUNCH
            /\ notifyCalls' = 1]_vars

\* A one-second step has notified an observer registered twice, twice.
C16_Witness ==
    /\ op = "advanceTime"
    /\ steps >= 2
    /\ observers = <<"ok", "ok">>
    /\ delivered = Handed(state, 2)

\* C17: when an observer raises during a notification, the observers
\* registered after it are not invoked, the operation ends with that error,
\* and advanceTime runs no further step.
C17_ObserverErrorPropagates ==
    [][(/\ \/ performPreLaunchChecksEnd
           \/ launch /\ state.status = READY_TO_LAUNCH
           \/ advanceStep
        /\ ~AllObserversReturn) =>
            /\ Len(delivered') = FirstThrower(observers)
            /\ \A k \in 1..Len(delivered') : delivered'[k].observer = k
            /\ invoked' = FirstThrower(observers)
            /\ result' = "ObserverError"
            /\ pc' = "idle"
            /\ advanceStep => steps' = steps + 1]_vars

\* advanceTime has ended at its first step with the error of the first of
\* two observers, more seconds to go.
C17_Witness ==
    /\ op = "advanceTime"
    /\ result = "ObserverError"
    /\ seconds > 1
    /\ steps = 1
    /\ Len(observers) = 2
    /\ observers[1] = "throws"
    /\ Len(delivered) = 1

\* C14: createStage(1) returns the Stage 1 strategy (burn 1.0, +10 km,
\* +1000 km/h, separating iff fuel <= 30), createStage(2) the Stage 2 strategy
\* (burn 0.5, +15 km, +800 km/h, never separating), any other number raises
\* SimulatorException, and no call touches the RocketSystem.
C14_CreateStage ==
    /\ system = <<NewRocketState, NoStrategy, << >>, "idle", "none", "none",
                  0, 0, 0, 0, 0, 0, << >>, {}>>
    /\ factory.result # "none" =>
         CASE factory.stageNumber = 1 ->
                /\ factory.result = "returned"
                /\ 2 * getFuelConsumptionRate(factory.strategy) = Pct(2)
                /\ getAltitudeIncrement(factory.strategy) = 10
                /\ getSpeedIncrement(factory.strategy) = 1000
                /\ shouldSeparate(factory.strategy, factory.fuel)
                     <=> factory.fuel <= Pct(30)
           [] factory.stageNumber = 2 ->
                /\ factory.result = "returned"
                /\ 2 * getFuelConsumptionRate(factory.strategy) = Pct(1)
                /\ getAltitudeIncrement(factory.strategy) = 15
                /\ getSpeedIncrement(factory.strategy) = 800
                /\ ~shouldSeparate(factory.strategy, factory.fuel)
           [] OTHER -> factory.result = "SimulatorException"

\* createStage(3) has raised.
C14_Witness ==
    /\ factory.stageNumber = 3
    /\ factory.result = "SimulatorException"

\* The commands whose canExecute() is false in a state of this status.
Rejected(c, status) ==
    \/ c.kind = "StartChecks" /\ status # PRE_LAUNCH
    \/ c.kind = "Launch" /\ status # READY_TO_LAUNCH
    \/ c.kind = "FastForward" /\ (status # IN_FLIGHT \/ c.seconds <= 0)

\* C12: executeCommand(c) for a command whose canExecute() is false raises
\* InvalidStateException, does not call c.execute(), and leaves the
\* RocketSystem and the command history as they were.
C12_RejectedCommand ==
    [][\A c \in Commands :
         executeCommand(c) /\ Rejected(c, state.status) =>
           /\ command'.result = "InvalidStateException"
           /\ ~command'.executed
           /\ state' = state
           /\ currentStageStrategy' = currentStageStrategy
           /\ commandHistory' = commandHistory]_vars

\* A FastForwardCommand of no seconds has been rejected during the flight,
\* after a command was recorded.
C12_Witness ==
    /\ command.kind = "FastForward"
    /\ command.seconds <= 0
    /\ command.result = "InvalidStateException"
    /\ state.status = IN_FLIGHT
    /\ commandHistory # << >>

\* C13: the command history grows by exactly the command of each
\* executeCommand call that returns, at its end; a call that raises, and any
\* other step, leaves it as it was; getHistory returns the history, and
\* emptying what it returned leaves the stored history as it was.
C13_HistoryAppendOnly ==
    [][/\ IF command' # command /\ command'.result = "returned"
          THEN commandHistory' =
                 Append(commandHistory,
                        [kind |-> command'.kind, seconds |-> command'.seconds])
          ELSE commandHistory' = commandHistory
       /\ getHistoryCall => snapshot'.value = commandHistory
       /\ clearReturnedHistory =>
            snapshot'.value = << >> /\ commandHistory' # << >>]_vars

\* A command whose execute() raised is not in the history, which holds
\* earlier commands, and the caller has emptied a copy of it.
C13_Witness ==
    /\ command.result = "ObserverError"
    /\ command.executed
    /\ Len(commandHistory) = 2
    /\ commandHistory[Len(commandHistory)].kind # command.kind
    /\ snapshot.object = "copy"
    /\ snapshot.value = << >>

\* C18: getState() changes nothing and returns the five fields as they are;
\* a write to the object returned leaves the system's state as it was; and
\* what is read from that object is not changed by later operations.
C18_GetStateCopies ==
    [][/\ getStateCall =>
            /\ valueOf(snapshot', state') = state
            /\ state' = state
            /\ currentStageStrategy' = currentStageStrategy
            /\ observers' = observers
       /\ (\E w \in CallerWrites(valueOf(snapshot, state)) :
               writeReturnedState(w)) => state' = state
       /\ snapshot.object # "none" /\ state' # state =>
            valueOf(snapshot', state') = valueOf(snapshot, state)]_vars

\* A state returned during the flight, its fuel written to, is read as
\* written once the system has gone on to orbit.
C18_Witness ==
    /\ snapshot.object = "copy"
    /\ snapshot.value.status = IN_FLIGHT
    /\ snapshot.value.altitude = 30
    /\ snapshot.value.fuel = Pct(100)
    /\ state.status = ORBIT_ACHIEVED
    /\ state.fuel = Pct(84)

\* C19: the observers are handed a snapshot: the state an operation leaves is
\* the state it handed to its first observer, whatever the observers wrote
\* to what they were handed.
C19_ObserversGetSnapshot ==
    [][notifyCalls' # notifyCalls /\ delivered' # << >> =>
         state' = delivered'[1].state]_vars

\* C20: processInput never raises: whatever the line and the state, it
\* returns; and when it has logged an error (a line that is no command, a
\* malformed fast_forward, a command refused by its precondition) the rocket
\* state, the stage strategy, the observers and the command history are as
\* before, so that the next line meets the simulator it would have met
\* without the rejected one.
C20_ProcessInputReturns ==
    [][/\ input'.result \in {"executing", "returned"}
       /\ input'.logged # "none" =>
            /\ input'.result = "returned"
            /\ state' = state
            /\ currentStageStrategy' = currentStageStrategy
            /\ observers' = observers
            /\ commandHistory' = commandHistory
            /\ pc' = pc]_vars

\* 'launch' entered during the flight has been refused and logged.
C20_Witness ==
    /\ input.line = LaunchWord
    /\ input.result = "returned"
    /\ input.logged = "InvalidStateException"
    /\ state.status = IN_FLIGHT
    /\ state.altitude = 30
    /\ Len(commandHistory) = 3

\* The X of a line 'fast_forward X': what follows the word and one blank;
\* nothing when the line is the word alone.
ArgumentOf(line) ==
    LET trimmedInput == toLowerCase(trim(line))
    IN  SubSeq(trimmedInput, Len(FastForwardWord) + 2, Len(trimmedInput))

IsFastForwardLine(line) ==
    LET trimmedInput == toLowerCase(trim(line))
    IN  \/ trimmedInput = FastForwardWord
        \/ startsWith(trimmedInput, FastForwardWord \o <<" ">>)

\* X is the decimal numeral of a positive integer, a plus sign allowed.
IsPositiveInteger(str) ==
    LET digits == IF str # << >> /\ Head(str) = "+" THEN Tail(str) ELSE str
    IN  /\ digits # << >>
        /\ \A k \in 1..Len(digits) : \E d \in 1..10 : Digits[d] = digits[k]
        /\ \E k \in 1..Len(digits) : digits[k] # "0"

\* C21: for a line 'fast_forward X' whose X is not a positive integer,
\* processInput logs an error, builds no command, adds nothing to the command
\* history and leaves the rocket state as it was.
C21_OnlyPositiveIntegersAdvance ==
    [][\A line \in InputLines :
         /\ processInput(line)
         /\ IsFastForwardLine(line)
         /\ ~IsPositiveInteger(ArgumentOf(line))
         => /\ input'.result = "returned"
            /\ input'.logged # "none"
            /\ command' = command
            /\ commandHistory' = commandHistory
            /\ state' = state]_vars

\* C22: a step that leaves the status IN_FLIGHT climbs by the increments of
\* the stage it began with; if that stage is Stage 1 and the fuel after the
\* burn is <= 30, the stage counter goes up by one and the strategy becomes
\* that of the new stage number (Stage 2, whose rates the next step uses);
\* otherwise the stage and the strategy are as they were.
C22_StageSeparation ==
    [][advanceStep /\ state'.status = IN_FLIGHT =>
         LET first == currentStageStrategy = Stage1Strategy
             fuel == state.fuel - (IF first THEN 2 ELSE 1)
         IN  /\ state'.fuel = fuel
             /\ state'.altitude = state.altitude + (IF first THEN 10 ELSE 15)
             /\ state'.speed = state.speed + (IF first THEN 1000 ELSE 800)
             /\ IF first /\ fuel <= Pct(30)
                THEN /\ state'.stage = state.stage + 1
                     /\ state'.stage = 2
                     /\ currentStageStrategy' = Stage2Strategy
                ELSE /\ state'.stage = state.stage
                     /\ currentStageStrategy' = currentStageStrategy]_vars

\* A Stage 1 step has separated, and a Stage 2 step has followed it.
C22_Witness ==
    /\ state.status = IN_FLIGHT
    /\ state.stage = 2
    /\ currentStageStrategy = Stage2Strategy
    /\ op = "advanceTime"
    /\ steps = 2
    /\ state.fuel = Pct(4) - 1

\* C27: every flight ends. The fuel is between 0 and 100; a step of a flight
\* either ends it or burns at least 0.5 and leaves some fuel, so a flight has
\* at most 200 steps; and a flight carried on by advanceTime calls of a
\* second or more reaches ORBIT_ACHIEVED or MISSION_FAILED.
C27_FlightTerminates ==
    /\ [](state.fuel \in 0 .. Pct(100))
    /\ [][advanceStep /\ state.status = IN_FLIGHT =>
            \/ state'.status \in Terminal
            \/ /\ state'.status = IN_FLIGHT
               /\ state'.fuel <= state.fuel - 1
               /\ state'.fuel > 0]_vars
    /\ (state.status = IN_FLIGHT) ~> (state.status \in Terminal)

\* A flight has ended, in its second stage, for want of fuel.
C27_Witness ==
    /\ state.status = MISSION_FAILED
    /\ state.stage = 2
    /\ state.fuel = 0
    /\ haltedAt > 0

\* C29: through the public operations in any order the stage counter stays
\* in {0, 1, 2}, a flight in progress has the strategy of its stage number,
\* and no call fails with the "Unknown stage" error of createStage.
C29_StageAndStrategyAgree ==
    /\ state.stage \in {0, 1, 2}
    /\ state.status = IN_FLIGHT =>
         \/ state.stage = 1 /\ currentStageStrategy = Stage1Strategy
         \/ state.stage = 2 /\ currentStageStrategy = Stage2Strategy
    /\ result # "SimulatorException"

\* A flight in its second stage, on its last half percent of fuel.
C29_Witness ==
    /\ state.status = IN_FLIGHT
    /\ state.stage = 2
    /\ currentStageStrategy = Stage2Strategy
    /\ state.fuel = 1
    /\ pc = "idle"

\* The place of a status on the way from PRE_LAUNCH to ORBIT_ACHIEVED.
Progress(status) ==
    CASE status = PRE_LAUNCH -> 0
      [] status = CHECKS_IN_PROGRESS -> 1
      [] status = READY_TO_LAUNCH -> 2
      [] status = IN_FLIGHT -> 3
      [] status = ORBIT_ACHIEVED -> 4
      [] status = MISSION_FAILED -> 5

\* C28: whatever lines processInput is given, the status is never
\* MISSION_FAILED, the stage is 0 or 1, a flight in progress has
\* altitude = 10 * (100 - fuel) and speed = 1000 * (100 - fuel), and the
\* status only moves forward from PRE_LAUNCH to ORBIT_ACHIEVED.
C28_SimulatorFliesStageOne ==
    /\ [](/\ state.status # MISSION_FAILED
          /\ state.stage \in {0, 1}
          /\ state.status = IN_FLIGHT =>
               /\ 2 * state.altitude = 10 * (Pct(100) - state.fuel)
               /\ 2 * state.speed = 1000 * (Pct(100) - state.fuel))
    /\ [][Progress(state'.status) >= Progress(state.status)]_vars

\* Orbit reached by 'fast_forward 10' entered for the second time.
C28_Witness ==
    /\ state.status = ORBIT_ACHIEVED
    /\ state.stage = 1
    /\ state.fuel = Pct(84)
    /\ input.line = FastForwardWord \o <<" ", "1", "0">>
    /\ input.result = "returned"
    /\ Len(commandHistory) = 4

\* C23: a SportsEventSubject has at most one observer of an id, and
\* subscribing an id that is subscribed changes nothing; every event of
\* scoreUpdate and gameEnd is appended to the history and has update called
\* once on every observer subscribed, in order, whichever of them raise, and
\* the call returns.
C23_SubscribersIsolated ==
    /\ [](\A j, k \in 1..Len(subject.observers) :
             subject.observers[j].id = subject.observers[k].id => j = k)
    /\ [][/\ \A o \in Subscribers :
                subscribe(o)
                  /\ (\E k \in 1..Len(subject.observers) :
                         subject.observers[k].id = o.id)
                  => subject'.observers = subject.observers
          /\ (gameEnd \/ \E score \in {0, 1} : scoreUpdate(<<"A">>, score)) =>
                /\ Len(subject'.eventHistory) = Len(subject.eventHistory) + 1
                /\ SubSeq(subject'.eventHistory, 1, Len(subject.eventHistory))
                     = subject.eventHistory
                /\ subject'.call.result = "returned"
                /\ Len(subject'.call.updated) = Len(subject.observers)
                /\ \A k \in 1..Len(subject.observers) :
                     subject'.call.updated[k] = subject.observers[k].id]_vars

\* A score published to two observers, the first of which raises.
C23_Witness ==
    /\ subject.call.op = "scoreUpdate"
    /\ subject.call.result = "returned"
    /\ Len(subject.observers) = 2
    /\ subject.observers[1].kind = "throws"
    /\ subject.call.updated = <<subject.observers[1].id, subject.observers[2].id>>
    /\ Len(subject.eventHistory) = 2

\* C24: getMetadata() of an email inside decorators d1..dn returns as its
\* decorators exactly d1..dn, in the order of application and each once, at
\* every call, whatever calls were made before on it or on a layer inside.
C24_MetadataListsDecorators ==
    email.call.op = "getMetadata" =>
        email.call.returned = SubSeq(email.layers, 1, email.call.layer)

\* C25: getDeviceCount() is the number of devices createDevice has created
\* and returned so far.
C25_DeviceCountIsDevicesCreated ==
    deviceFactory.deviceCounter = deviceFactory.created

\* C26: getDecryptedContent() of an EncryptionDecorator returns the message
\* of the email inside it, whether getContent() was called before or not.
C26_DecryptionRoundTrip ==
    email.call.op = "getDecryptedContent" =>
        email.call.returned = charCodes(email.message)

\* The key is not empty and the value satisfies the rule of the key.
Accepted(key, v) ==
    /\ key # ""
    /\ key = "maxRetries" => v.type = "number" /\ v.n \in 0 .. 10
    /\ key = "timeoutMs" => v.type = "number" /\ v.n \in 1000 .. 30000
    /\ key = "debugMode" => v.type = "boolean"

====
